---- MODULE Spec2Model ----
(***************************************************************************)
(* Model of src/src/excel/server.py: an MCP server exposing read, query    *)
(* and mutation operations on spreadsheet files through a path-keyed cache *)
(* (WORKBOOKS, DATAFRAMES).                                                *)
(*                                                                         *)
(* A path is a sequence of components; an absolute path starts with "/",   *)
(* a home-relative one with "~".  A Sheet Table is a record                *)
(* [cols |-> <<header, ...>>, rows |-> <<row, ...>>], each row a sequence  *)
(* of cells.  A column string is the sequence of its characters' code      *)
(* points.                                                                 *)
(***************************************************************************)
EXTENDS Integers, Sequences, FiniteSets, TLC

VARIABLES disk, WORKBOOKS, DATAFRAMES, stale, last, pure

vars == <<disk, WORKBOOKS, DATAFRAMES, stale, last, pure>>

(* ------------------------------ bounds -------------------------------- *)
\* add_row is explored while the table has fewer rows than this
MaxRows == 2
\* create_sheet is explored while the file has fewer sheets than this
MaxSheets == 2
\* column strings of the column-letter specification have at most this length
MaxColLen == 2
\* textual paths of the path specification have at most this many components
MaxPathLen == 3

(* ------------------------- program constants -------------------------- *)
\* ord('A'), line 103
OrdA == 65
\* the base of the column-letter encoding, line 103
Base == 26

Range(f) == {f[i] : i \in DOMAIN f}

EmptyDict == [x \in {} |-> x]

\* del d[k]
DictDel(d, k) == [x \in (DOMAIN d) \ {k} |-> d[x]]

\* d[k] = v
DictSet(d, k, v) == [x \in (DOMAIN d) \cup {k} |-> IF x = k THEN v ELSE d[x]]

(* ------------------------- the path normalizer ------------------------ *)
\* the process's home directory and working directory
Home == <<"/", "h">>
Cwd == <<"/", "h", "w">>

\* os.path.expanduser: a leading "~" component becomes the home directory
expanduser(p) ==
    IF Len(p) > 0 /\ Head(p) = "~" THEN Home \o Tail(p) ELSE p

RECURSIVE normpath(_, _)
\* os.path.normpath on an absolute path: "." is dropped and ".." removes the
\* component before it, textually (no look at the file system)
normpath(acc, rest) ==
    IF rest = <<>> THEN acc
    ELSE IF Head(rest) = "." THEN normpath(acc, Tail(rest))
    ELSE IF Head(rest) = ".."
         THEN normpath(IF Len(acc) > 1 THEN SubSeq(acc, 1, Len(acc) - 1) ELSE acc,
                       Tail(rest))
    ELSE normpath(Append(acc, Head(rest)), Tail(rest))

\* os.path.abspath: join with the working directory unless absolute, then normpath
abspath(p) ==
    IF Len(p) > 0 /\ Head(p) = "/" THEN normpath(<<"/">>, Tail(p))
    ELSE normpath(<<"/">>, Tail(Cwd) \o p)

\* "~" is not expanded
normalize_path_abs(path) == abspath(path)

\* line 17
normalize_path(path) == abspath(expanduser(path))

(* ------------------------ cells and conversions ----------------------- *)
\* a missing value of an in-memory table (pandas NaN)
NaN == "<NaN>"
\* JSON null
Null == "<null>"

RowEmpty(r) == \A j \in DOMAIN r : r[j] = ""

RECURSIVE TrimRows(_)
\* the reader drops the trailing rows that hold no value
TrimRows(rows) ==
    IF rows # <<>> /\ RowEmpty(rows[Len(rows)])
    THEN TrimRows(SubSeq(rows, 1, Len(rows) - 1))
    ELSE rows

ToCell(v) == IF v = NaN THEN "" ELSE v
FromCell(c) == IF c = "" THEN NaN ELSE c

\* df.to_excel(writer, sheet_name, index=False): the grid written for a table;
\* a missing value and an empty string both become an empty cell
to_excel(df) ==
    [cols |-> df.cols,
     rows |-> [i \in DOMAIN df.rows |->
                  [j \in DOMAIN df.rows[i] |-> ToCell(df.rows[i][j])]]]

\* pd.read_excel of one sheet: an empty cell reads as NaN, trailing empty rows
\* are dropped
read_sheet(grid) ==
    [cols |-> grid.cols,
     rows |-> [i \in DOMAIN TrimRows(grid.rows) |->
                  [j \in DOMAIN grid.rows[i] |-> FromCell(grid.rows[i][j])]]]

JsonCell(v) == IF v = NaN THEN Null ELSE v

\* df.to_json(orient='records'): one record per row, column name -> value
to_json(df) ==
    [i \in DOMAIN df.rows |->
        [h \in Range(df.cols) |->
            JsonCell(df.rows[i][CHOOSE j \in DOMAIN df.cols : df.cols[j] = h])]]

StrCell(v) == IF v = NaN THEN "NaN" ELSE v

\* df.to_string(): the text rendering of a table
to_string(df) ==
    [cols |-> df.cols,
     rows |-> [i \in DOMAIN df.rows |->
                  [j \in DOMAIN df.rows[i] |-> StrCell(df.rows[i][j])]]]

(* ----------------------- column letters, iloc ------------------------- *)
\* str.upper() on one character
Upper(ch) == IF ch >= 97 /\ ch <= 122 THEN ch - 32 ELSE ch

RECURSIVE ColFold(_, _)
ColFold(column, acc) ==
    IF column = <<>> THEN acc
    ELSE ColFold(Tail(column), acc * Base + (Upper(Head(column)) - OrdA + 1))

\* the index is left one-based
col_index_one_based(column) == ColFold(column, 0)

\* lines 101-104: the zero-based column index of a column string
col_index(column) == ColFold(column, 0) - 1

\* a position past the end is accepted
iloc_valid_unbounded(i, n) == -n <= i

\* df.iloc accepts the positions -n .. n-1 of an axis of length n
iloc_valid(i, n) == -n <= i /\ i < n

\* the 1-based position iloc position i selects on an axis of length n
iloc_pos(i, n) == IF i < 0 THEN n + i + 1 ELSE i + 1

(* --------------------------- the file system -------------------------- *)
\* the cache keys of the two spreadsheet files, and of a file that does not exist
FKey == <<"/", "h", "f">>
GKey == <<"/", "h", "w", "g">>
XKey == <<"/", "h", "w", "x">>

\* the textual paths the operations are called with: the read operations on
\* all three files, the mutations on the first and on the missing one
ReadPaths == {<<"~", "f">>, <<"g">>, <<"x">>}
ListPaths == ReadPaths \cup {<<"/", "h", "f">>}
MutPaths == {<<"~", "f">>, <<"x">>}

\* "N" names no sheet until create_sheet adds it
SheetArgs == {"S1", "N"}
NewSheetArgs == {"S1", "N"}
HeaderArgs == {<<"A">>}
\* row 0, a row that exists once the table has MaxRows rows, a row beyond
RowArgs == {0, MaxRows, MaxRows + 1}
\* "A", "b" and the empty column string
ColumnArgs == {<<65>>, <<98>>, <<>>}
ValueArgs == {"99"}
ValuesArgs == {<<"99">>, <<"">>, <<"99", "99">>}
QueryArgs == {"A == 'x'", "A =="}

FileExists(path) == path \in DOMAIN disk

(* ------------------------------ the cache ----------------------------- *)
\* pd.ExcelFile(path): the handle holds the sheet names the file has when opened
ExcelFile(path) == [sheet_names |-> disk[path].names]

Cached(path, sheet_name) ==
    path \in DOMAIN DATAFRAMES /\ sheet_name \in DOMAIN DATAFRAMES[path]

\* the table dictionary of the path is emptied at every call
ensure_workbook_reset(path) ==
    IF ~FileExists(path)
    THEN [ok |-> path \in DOMAIN WORKBOOKS, wb |-> WORKBOOKS, df |-> DATAFRAMES,
          st |-> stale]
    ELSE [ok |-> TRUE,
          wb |-> DictSet(WORKBOOKS, path, ExcelFile(path)),
          df |-> DictSet(DATAFRAMES, path, EmptyDict),
          st |-> [stale EXCEPT ![path] = FALSE]]

\* lines 23-25, 38-40, 72-74, 93-95, 123-125: open the workbook if no handle is
\* cached.  [ok, wb, df, st]; ok is FALSE when pd.ExcelFile raises
ensure_workbook(path) ==
    IF path \in DOMAIN WORKBOOKS
    THEN [ok |-> TRUE, wb |-> WORKBOOKS, df |-> DATAFRAMES, st |-> stale]
    ELSE IF ~FileExists(path)
    THEN [ok |-> FALSE, wb |-> WORKBOOKS, df |-> DATAFRAMES, st |-> stale]
    ELSE [ok |-> TRUE,
          wb |-> DictSet(WORKBOOKS, path, ExcelFile(path)),
          df |-> DictSet(DATAFRAMES, path, EmptyDict),
          st |-> [stale EXCEPT ![path] = FALSE]]

\* a sheet the workbook does not have gets an empty table in the cache
ensure_sheet_empty(path, sheet_name, sf) ==
    IF Cached(path, sheet_name)
    THEN [ok |-> TRUE, wb |-> WORKBOOKS, df |-> DATAFRAMES, st |-> stale,
          read |-> FALSE]
    ELSE LET w == ensure_workbook(path) IN
         IF ~w.ok
         THEN [ok |-> FALSE, wb |-> w.wb, df |-> w.df, st |-> w.st, read |-> FALSE]
         ELSE IF sheet_name \notin Range(w.wb[path].sheet_names)
         THEN [ok |-> FALSE, wb |-> w.wb,
               df |-> [w.df EXCEPT ![path] =
                          DictSet(@, sheet_name, [cols |-> <<>>, rows |-> <<>>])],
               st |-> w.st, read |-> FALSE]
         ELSE IF w.st[path] /\ sf
         THEN [ok |-> FALSE, wb |-> w.wb, df |-> w.df, st |-> w.st, read |-> FALSE]
         ELSE [ok |-> TRUE, wb |-> w.wb,
               df |-> [w.df EXCEPT ![path] =
                          DictSet(@, sheet_name,
                                  read_sheet(disk[path].data[sheet_name]))],
               st |-> w.st, read |-> TRUE]

\* the sheet is read from the file at every call
ensure_sheet_reread(path, sheet_name, sf) ==
    LET w == ensure_workbook(path) IN
    IF ~w.ok
    THEN [ok |-> FALSE, wb |-> w.wb, df |-> w.df, st |-> w.st, read |-> FALSE]
    ELSE IF sheet_name \notin Range(disk[path].names)
    THEN [ok |-> FALSE, wb |-> w.wb, df |-> w.df, st |-> w.st, read |-> FALSE]
    ELSE [ok |-> TRUE, wb |-> w.wb,
          df |-> [w.df EXCEPT ![path] =
                     DictSet(@, sheet_name,
                             read_sheet(disk[path].data[sheet_name]))],
          st |-> w.st, read |-> TRUE]

\* lines 37-41, 71-75, 92-96, 122-126: the sheet table is read through the
\* handle unless it is cached.  A handle opened before the file was rewritten
\* reads a zip archive whose bytes have moved: the read may fail (sf).
\* [ok, wb, df, st, read]; read says that the sheet was read from the file
ensure_sheet(path, sheet_name, sf) ==
    IF Cached(path, sheet_name)
    THEN [ok |-> TRUE, wb |-> WORKBOOKS, df |-> DATAFRAMES, st |-> stale,
          read |-> FALSE]
    ELSE LET w == ensure_workbook(path) IN
         IF ~w.ok
         THEN [ok |-> FALSE, wb |-> w.wb, df |-> w.df, st |-> w.st, read |-> FALSE]
         ELSE IF sheet_name \notin Range(w.wb[path].sheet_names)
                 \/ (w.st[path] /\ sf)
         THEN [ok |-> FALSE, wb |-> w.wb, df |-> w.df, st |-> w.st, read |-> FALSE]
         ELSE [ok |-> TRUE, wb |-> w.wb,
               df |-> [w.df EXCEPT ![path] =
                          DictSet(@, sheet_name,
                                  read_sheet(disk[path].data[sheet_name]))],
               st |-> w.st, read |-> TRUE]

\* the change is made to a copy of the cached table
store_table_copy(dfs, path, sheet_name, df) == dfs

\* lines 98, 107 and 128-129: df is the cached table itself, so the change made
\* through df is a change of DATAFRAMES[path][sheet_name]
store_table(dfs, path, sheet_name, df) ==
    [dfs EXCEPT ![path][sheet_name] = df]

\* the cached table is used when there is one
read_cached_sheet(path, sheet_name) ==
    IF path \in DOMAIN DATAFRAMES /\ sheet_name \in DOMAIN DATAFRAMES[path]
    THEN DATAFRAMES[path][sheet_name]
    ELSE read_sheet(disk[path].data[sheet_name])

\* lines 55 and 58: pd.read_excel(path, ...) opens the file itself and parses
\* the sheet as it is on disk
read_disk_sheet(path, sheet_name) == read_sheet(disk[path].data[sheet_name])

\* the handle is kept
del_workbook_kept(path) == WORKBOOKS

\* lines 151-152
del_workbook(path) ==
    IF path \in DOMAIN WORKBOOKS THEN DictDel(WORKBOOKS, path) ELSE WORKBOOKS

\* the tables of the path are kept
del_dataframes_kept(path) == DATAFRAMES

\* the tables of every path are dropped
del_dataframes_all(path) == EmptyDict

\* lines 153-154
del_dataframes(path) ==
    IF path \in DOMAIN DATAFRAMES THEN DictDel(DATAFRAMES, path) ELSE DATAFRAMES

(* ------------------------------ the writer ---------------------------- *)
\* the sheet is removed and written again after the others
write_replace_moved(path, sheet_name, df) ==
    [disk EXCEPT ![path] =
        [names |-> Append(SelectSeq(@.names, LAMBDA n : n # sheet_name), sheet_name),
         data |-> DictSet(@.data, sheet_name, to_excel(df))]]

\* lines 110-111, 132-133: ExcelWriter(mode='a', if_sheet_exists='replace') and
\* to_excel: the sheet is replaced at its position, the other sheets are kept
write_replace(path, sheet_name, df) ==
    [disk EXCEPT ![path] =
        [names |-> IF sheet_name \in Range(@.names) THEN @.names
                   ELSE Append(@.names, sheet_name),
         data |-> DictSet(@.data, sheet_name, to_excel(df))]]

\* a sheet name the file has is accepted
write_new_any(path, sheet_name) == TRUE

\* lines 147-148: ExcelWriter(mode='a') refuses a sheet name the file has
write_new_ok(path, sheet_name) == sheet_name \notin Range(disk[path].names)

\* lines 147-148: the new sheet is appended after the others
write_new(path, sheet_name, df) ==
    [disk EXCEPT ![path] =
        [names |-> Append(@.names, sheet_name),
         data |-> DictSet(@.data, sheet_name, to_excel(df))]]

\* the file at path has been rewritten: a cached handle is now behind it
Rewritten(st, wb, path) ==
    [st EXCEPT ![path] = (path \in DOMAIN wb)]

(* --------------------------- table operations ------------------------- *)
\* line 107: df.iloc[row-1, col_idx] = value raises unless both positions exist
iloc_set_ok(df, row, ci) ==
    iloc_valid(row - 1, Len(df.rows)) /\ iloc_valid(ci, Len(df.cols))

iloc_set(df, row, ci, value) ==
    [df EXCEPT !.rows[iloc_pos(row - 1, Len(df.rows))]
                     [iloc_pos(ci, Len(df.cols))] = value]

\* a list of any length is accepted
loc_append_any(df, values) == Len(df.cols) > 0

\* line 129: df.loc[len(df)] = values raises on a table without columns and on
\* a list whose length is not the number of columns
loc_append_ok(df, values) ==
    Len(df.cols) > 0 /\ Len(values) = Len(df.cols)

\* the row is put before the others
loc_prepend(df, values) == [df EXCEPT !.rows = <<values>> \o @]

loc_append(df, values) == [df EXCEPT !.rows = Append(@, values)]

\* line 78: df.query(query); the expression "A == 'x'" needs a column A
query_ok(df, query) == query = "A == 'x'" /\ "A" \in Range(df.cols)

query_rows(df, query) ==
    [cols |-> df.cols,
     rows |-> SelectSeq(df.rows,
                 LAMBDA r : r[CHOOSE j \in DOMAIN df.cols : df.cols[j] = "A"] = "x")]

(* ------------------------- the last operation ------------------------- *)
\* what the dispatcher saw of the last call: the operation, the normalized path,
\* the arguments, the outcome ("ok", "error": an "Error ..." text was returned,
\* "raise": an exception left the operation) and the returned data
NoCall ==
    [op |-> "none", key |-> <<>>, sheet |-> "", res |-> "ok", out |-> <<>>,
     row |-> 0, col |-> <<>>, vals |-> <<>>, read |-> FALSE, cached |-> FALSE,
     after |-> ""]

Call(op, path, sheet_name, res) ==
    [NoCall EXCEPT !.op = op, !.key = path, !.sheet = sheet_name, !.res = res]

\* the call before this one, when it was a successful mutation of the same path
\* (of the same sheet, for a change of one sheet)
After(op, path, sheet_name) ==
    IF last.op = op /\ last.res = "ok" /\ last.key = path
       /\ (op \in {"update_cell", "external_write"} => last.sheet = sheet_name)
    THEN IF last.cached THEN "cached_" \o op ELSE op
    ELSE ""

\* the call before this one, when it failed on a sheet the file of the same
\* path does not have
AfterMissing(path) ==
    IF /\ last.op \in {"get_sheet_data", "query_excel", "update_cell", "add_row"}
       /\ last.res # "ok"
       /\ last.key = path
       /\ path \in DOMAIN disk
       /\ last.sheet \notin Range(disk[path].names)
    THEN "missing_sheet"
    ELSE ""

\* lines 60-61, 80-81, 114-115, 136-137, 157-158: the except clause of the five
\* guarded operations returns the failure as an "Error ..." text
except_reraise == "raise"

except_result == "error"

(* ------------------------------ the state ----------------------------- *)
InitProgram ==
    /\ disk = (FKey :> [names |-> <<"S1">>,
                        data |-> ("S1" :> [cols |-> <<"A", "B">>,
                                           rows |-> << <<"x", "1">>,
                                                       <<"y", "2">> >>])])
              @@ (GKey :> [names |-> <<"S1">>,
                           data |-> ("S1" :> [cols |-> <<"A">>,
                                              rows |-> << <<"x">> >>])])
    /\ WORKBOOKS = EmptyDict
    /\ DATAFRAMES = EmptyDict
    /\ stale = [k \in {FKey, GKey} |-> FALSE]
    /\ last = NoCall

Init == InitProgram /\ pure = [pc |-> "idle"]

(* ---------------------------- the operations -------------------------- *)
\* lines 19-31
list_sheets(file_path) ==
    \E path \in {normalize_path(file_path)} :
    \E w \in {ensure_workbook(path)} :
       /\ WORKBOOKS' = w.wb
       /\ DATAFRAMES' = w.df
       /\ stale' = w.st
       /\ last' = IF w.ok
                  THEN [Call("list_sheets", path, "", "ok") EXCEPT
                           !.out = w.wb[path].sheet_names,
                           !.after = After("create_sheet", path, "")]
                  ELSE Call("list_sheets", path, "", "raise")
       /\ UNCHANGED <<disk, pure>>

\* lines 33-44
get_sheet_data(file_path, sheet_name, sf) ==
    \E path \in {normalize_path(file_path)} :
    \E m \in {ensure_sheet(path, sheet_name, sf)} :
       /\ WORKBOOKS' = m.wb
       /\ DATAFRAMES' = m.df
       /\ stale' = m.st
       /\ last' = IF m.ok
                  THEN [Call("get_sheet_data", path, sheet_name, "ok") EXCEPT
                           !.out = to_json(m.df[path][sheet_name]),
                           !.read = m.read,
                           !.after = After("update_cell", path, sheet_name)
                                     \o After("external_write", path, sheet_name)
                                     \o AfterMissing(path)]
                  ELSE Call("get_sheet_data", path, sheet_name, "raise")
       /\ UNCHANGED <<disk, pure>>

\* lines 46-61; sheet_name "" stands for an omitted sheet_name
read_excel(file_path, sheet_name) ==
    LET path == normalize_path(file_path)
    IN /\ last' =
            IF ~FileExists(path)
            THEN Call("read_excel", path, sheet_name, except_result)
            ELSE IF sheet_name # ""
            THEN IF sheet_name \in Range(disk[path].names)
                 THEN [Call("read_excel", path, sheet_name, "ok") EXCEPT
                          !.out = to_string(read_disk_sheet(path, sheet_name))]
                 ELSE Call("read_excel", path, sheet_name, except_result)
            ELSE [Call("read_excel", path, sheet_name, "ok") EXCEPT
                     !.out = [i \in DOMAIN disk[path].names |->
                                 [name |-> disk[path].names[i],
                                  text |-> to_string(read_disk_sheet(
                                      path, disk[path].names[i]))]]]
       /\ UNCHANGED <<disk, WORKBOOKS, DATAFRAMES, stale, pure>>

\* lines 63-81
query_excel(file_path, sheet_name, query, sf) ==
    \E path \in {normalize_path(file_path)} :
    \E m \in {ensure_sheet(path, sheet_name, sf)} :
       /\ WORKBOOKS' = m.wb
       /\ DATAFRAMES' = m.df
       /\ stale' = m.st
       /\ last' = IF m.ok /\ query_ok(m.df[path][sheet_name], query)
                  THEN [Call("query_excel", path, sheet_name, "ok") EXCEPT
                           !.out = to_string(query_rows(m.df[path][sheet_name], query)),
                           !.vals = <<query>>,
                           !.read = m.read]
                  ELSE [Call("query_excel", path, sheet_name, except_result) EXCEPT
                           !.vals = <<query>>,
                           !.read = m.read]
       /\ UNCHANGED <<disk, pure>>

\* lines 83-115.  wf: the writer of line 110 cannot open the file for writing
\* (the table was changed at line 107, before)
update_cell(file_path, sheet_name, row, column, value, sf, wf) ==
    \E path \in {normalize_path(file_path)} :
    \E m \in {ensure_sheet(path, sheet_name, sf)} :
    LET col_idx == col_index(column)
        call(res) == [Call("update_cell", path, sheet_name, res) EXCEPT
                         !.row = row, !.col = column,
                         !.vals = IF res = "ok" THEN <<value>> ELSE <<>>,
                         !.read = m.read,
                         !.after = After("external_write", path, sheet_name)]
    IN IF m.ok /\ iloc_set_ok(m.df[path][sheet_name], row, col_idx)
       THEN LET df == iloc_set(m.df[path][sheet_name], row, col_idx, value)
            IN /\ WORKBOOKS' = m.wb
               /\ DATAFRAMES' = store_table(m.df, path, sheet_name, df)
               /\ IF wf
                  THEN /\ stale' = m.st
                       /\ last' = call(except_result)
                       /\ UNCHANGED disk
                  ELSE /\ disk' = write_replace(path, sheet_name, df)
                       /\ stale' = Rewritten(m.st, m.wb, path)
                       /\ last' = call("ok")
               /\ UNCHANGED pure
       ELSE /\ ~wf
            /\ WORKBOOKS' = m.wb
            /\ DATAFRAMES' = m.df
            /\ stale' = m.st
            /\ last' = call(except_result)
            /\ UNCHANGED <<disk, pure>>

\* lines 117-137.  wf: the writer of line 132 cannot open the file for writing
\* (the row was appended at line 129, before)
add_row(file_path, sheet_name, values, sf, wf) ==
    \E path \in {normalize_path(file_path)} :
    \E m \in {ensure_sheet(path, sheet_name, sf)} :
    LET call(res) == [Call("add_row", path, sheet_name, res) EXCEPT
                         !.vals = values, !.read = m.read,
                         !.after = After("external_write", path, sheet_name)]
    IN IF m.ok /\ loc_append_ok(m.df[path][sheet_name], values)
       THEN LET df == loc_append(m.df[path][sheet_name], values)
            IN /\ Len(m.df[path][sheet_name].rows) < MaxRows
               /\ WORKBOOKS' = m.wb
               /\ DATAFRAMES' = store_table(m.df, path, sheet_name, df)
               /\ IF wf
                  THEN /\ stale' = m.st
                       /\ last' = call(except_result)
                       /\ UNCHANGED disk
                  ELSE /\ disk' = write_replace(path, sheet_name, df)
                       /\ stale' = Rewritten(m.st, m.wb, path)
                       /\ last' = call("ok")
               /\ UNCHANGED pure
       ELSE /\ ~wf
            /\ WORKBOOKS' = m.wb
            /\ DATAFRAMES' = m.df
            /\ stale' = m.st
            /\ last' = call(except_result)
            /\ UNCHANGED <<disk, pure>>

\* lines 139-158.  A refused sheet name raises inside the with block; the
\* writer's exit still saves the workbook it loaded, with the same content.
\* wf: the writer of line 147 cannot open the file for writing.  The call
\* records the sheets of path that were materialized when it started
create_sheet(file_path, sheet_name, headers, wf) ==
    LET path == normalize_path(file_path)
        df == [cols |-> headers, rows |-> <<>>]
        call(res) == [Call("create_sheet", path, sheet_name, res) EXCEPT
                         !.vals = headers,
                         !.cached = (path \in DOMAIN WORKBOOKS),
                         !.out = IF FileExists(path)
                                 THEN SelectSeq(disk[path].names,
                                         LAMBDA n : Cached(path, n))
                                 ELSE <<>>]
    IN IF ~FileExists(path)
       THEN /\ ~wf
            /\ last' = call(except_result)
            /\ UNCHANGED <<disk, WORKBOOKS, DATAFRAMES, stale, pure>>
       ELSE IF wf
       THEN /\ last' = call(except_result)
            /\ UNCHANGED <<disk, WORKBOOKS, DATAFRAMES, stale, pure>>
       ELSE IF ~write_new_ok(path, sheet_name)
       THEN /\ stale' = Rewritten(stale, WORKBOOKS, path)
            /\ last' = call(except_result)
            /\ UNCHANGED <<disk, WORKBOOKS, DATAFRAMES, pure>>
       ELSE /\ Len(disk[path].names) < MaxSheets
            /\ disk' = write_new(path, sheet_name, df)
            /\ WORKBOOKS' = del_workbook(path)
            /\ DATAFRAMES' = del_dataframes(path)
            /\ stale' = [stale EXCEPT ![path] = FALSE]
            /\ last' = call("ok")
            /\ UNCHANGED pure

\* whether a read through the handle of path can find the file rewritten
SfArgs(file_path) ==
    LET path == normalize_path(file_path)
    IN IF path \in DOMAIN WORKBOOKS /\ stale[path] THEN BOOLEAN ELSE {FALSE}

\* a call that names a missing file or a missing sheet fails before it looks at
\* its other arguments: it is explored with one choice of them
SheetExists(file_path, sheet_name) ==
    LET path == normalize_path(file_path)
    IN FileExists(path) /\ sheet_name \in Range(disk[path].names)

SheetArgsFor(p) == IF FileExists(normalize_path(p)) THEN SheetArgs ELSE {"S1"}
RowArgsFor(p, s) == IF SheetExists(p, s) THEN RowArgs ELSE {MaxRows}
ColumnArgsFor(p, s) == IF SheetExists(p, s) THEN ColumnArgs ELSE {<<65>>}
ValuesArgsFor(p, s) == IF SheetExists(p, s) THEN ValuesArgs ELSE {<<"99">>}
QueryArgsFor(p, s) == IF SheetExists(p, s) THEN QueryArgs ELSE {"A == 'x'"}

Next ==
    \/ \E p \in ListPaths : list_sheets(p)
    \/ \E p \in ListPaths : \E s \in SheetArgsFor(p), sf \in SfArgs(p) :
          get_sheet_data(p, s, sf)
    \/ \E p \in ReadPaths : \E s \in SheetArgsFor(p) \cup {""} : read_excel(p, s)
    \/ \E p \in ReadPaths : \E s \in SheetArgsFor(p) :
          \E q \in QueryArgsFor(p, s), sf \in SfArgs(p) : query_excel(p, s, q, sf)
    \/ \E p \in MutPaths : \E s \in SheetArgsFor(p) :
          \E r \in RowArgsFor(p, s), c \in ColumnArgsFor(p, s), v \in ValueArgs,
             sf \in SfArgs(p) : update_cell(p, s, r, c, v, sf, FALSE)
    \/ \E p \in MutPaths : \E s \in SheetArgsFor(p) :
          \E vs \in ValuesArgsFor(p, s), sf \in SfArgs(p) : add_row(p, s, vs, sf, FALSE)
    \/ \E p \in MutPaths, s \in NewSheetArgs, h \in HeaderArgs : create_sheet(p, s, h, FALSE)

Spec == Init /\ [][Next]_vars

(* ----------------------- writes that can fail ------------------------- *)
\* the five guarded operations on one workbook and on a missing file, the
\* mutations also when the file cannot be opened for writing (read-only,
\* locked by another program); update_cell is explored on column A
WfColumnArgs == {<<65>>}

NextWF ==
    \/ \E p \in MutPaths : \E s \in SheetArgsFor(p) \cup {""} : read_excel(p, s)
    \/ \E p \in MutPaths : \E s \in SheetArgsFor(p) :
          \E q \in QueryArgsFor(p, s), sf \in SfArgs(p) : query_excel(p, s, q, sf)
    \/ \E p \in MutPaths : \E s \in SheetArgsFor(p) :
          \E r \in RowArgsFor(p, s), c \in WfColumnArgs, v \in ValueArgs,
             sf \in SfArgs(p), wf \in BOOLEAN : update_cell(p, s, r, c, v, sf, wf)
    \/ \E p \in MutPaths : \E s \in SheetArgsFor(p) :
          \E vs \in ValuesArgsFor(p, s), sf \in SfArgs(p), wf \in BOOLEAN :
             add_row(p, s, vs, sf, wf)
    \/ \E p \in MutPaths, s \in NewSheetArgs, h \in HeaderArgs, wf \in BOOLEAN :
          create_sheet(p, s, h, wf)

SpecWF == Init /\ [][NextWF]_vars

(* ------------- the column-letter conversion on its own ---------------- *)
Letters == (65 .. 90) \cup (97 .. 122)

\* the column strings of 1 .. MaxColLen letters, in either case
ColumnStrings == UNION {[1 .. n -> Letters] : n \in 1 .. MaxColLen}

InitCol ==
    /\ InitProgram
    /\ pure \in {[pc |-> "call", column |-> c, col_idx |-> 0] : c \in ColumnStrings}

\* lines 101-104 applied to pure.column
resolve_column ==
    /\ pure.pc = "call"
    /\ pure' = [pure EXCEPT !.pc = "done", !.col_idx = col_index(pure.column)]
    /\ UNCHANGED <<disk, WORKBOOKS, DATAFRAMES, stale, last>>

SpecCol == InitCol /\ [][resolve_column]_vars

(* ---------------- the path normalizer on its own ---------------------- *)
\* the file system the paths are resolved in: the directories, the regular
\* files, and one symbolic link /h/l to the file /h/f
Dirs == {<<"/">>, <<"/", "h">>, <<"/", "h", "w">>}
RegularFiles == {FKey, GKey}
Symlinks == (<<"/", "h", "l">> :> FKey)

Components == {"~", "/", "..", "h", "f", "l"}

\* the textual paths of 1 .. MaxPathLen components; "~" and "/" only in front
TextPaths ==
    {p \in UNION {[1 .. n -> Components] : n \in 1 .. MaxPathLen} :
        \A i \in 2 .. Len(p) : p[i] \notin {"~", "/"}}

InitPath ==
    /\ InitProgram
    /\ pure \in {[pc |-> "call", path |-> p, key |-> <<>>] : p \in TextPaths}

\* line 17 applied to pure.path
normalize ==
    /\ pure.pc = "call"
    /\ pure' = [pure EXCEPT !.pc = "done", !.key = normalize_path(pure.path)]
    /\ UNCHANGED <<disk, WORKBOOKS, DATAFRAMES, stale, last>>

SpecPath == InitPath /\ [][normalize]_vars

(* ------------------- a file that another process writes --------------- *)
\* what the other process leaves in a sheet: one row of its own under the
\* same headers
ExternalGrid(grid) ==
    [cols |-> grid.cols, rows |-> << [j \in DOMAIN grid.cols |-> "ext"] >>]

\* another process rewrites a sheet of the file while its table is cached
\* (lines 37 and 44, 71 and 76, 92 and 98, 122 and 128: the operations look in
\* DATAFRAMES only).  The handle of the path now stands for the old file
external_write(file_path, sheet_name) ==
    \E path \in {normalize_path(file_path)} :
       /\ Cached(path, sheet_name)
       /\ disk[path].data[sheet_name] # ExternalGrid(disk[path].data[sheet_name])
       /\ disk' = [disk EXCEPT ![path].data[sheet_name] = ExternalGrid(@)]
       /\ stale' = [stale EXCEPT ![path] = TRUE]
       /\ last' = Call("external_write", path, sheet_name, "ok")
       /\ UNCHANGED <<WORKBOOKS, DATAFRAMES, pure>>

NextExt ==
    \/ \E p \in MutPaths : \E s \in SheetArgsFor(p), sf \in SfArgs(p) :
          get_sheet_data(p, s, sf)
    \/ \E p \in MutPaths : \E s \in SheetArgsFor(p) \cup {""} : read_excel(p, s)
    \/ \E p \in MutPaths : \E s \in SheetArgsFor(p) :
          \E q \in QueryArgsFor(p, s), sf \in SfArgs(p) : query_excel(p, s, q, sf)
    \/ \E p \in MutPaths : \E s \in SheetArgsFor(p) :
          \E r \in RowArgsFor(p, s), c \in ColumnArgsFor(p, s), v \in ValueArgs,
             sf \in SfArgs(p) : update_cell(p, s, r, c, v, sf, FALSE)
    \/ \E p \in MutPaths : \E s \in SheetArgsFor(p) :
          \E vs \in ValuesArgsFor(p, s), sf \in SfArgs(p) :
             add_row(p, s, vs, sf, FALSE)
    \/ \E p \in MutPaths, s \in NewSheetArgs, h \in HeaderArgs :
          create_sheet(p, s, h, FALSE)
    \/ \E p \in MutPaths, s \in SheetArgs : external_write(p, s)

SpecExt == Init /\ [][NextExt]_vars

(* -------------------- operations whose steps interleave --------------- *)
\* Two dispatcher threads run update_cell and create_sheet on one workbook
\* statement by statement.  pure holds the dispatch mode (serial: a call
\* starts only when no other call is running) and each thread's frame:
\* its position, its arguments, the workbook its writer loaded (book), its
\* reference df (shared: df is the object DATAFRAMES holds, else the thread
\* holds the last reference and df is its content), and the outcome of its
\* last call (res, and exc, the exception the except clause caught)
Threads == {1, 2}
ConcPath == <<"~", "f">>
ConcKey == normalize_path(ConcPath)
ConcSheet == "S1"
ConcRows == {2}
ConcColumns == {<<65>>, <<98>>}

IdleThread ==
    [pc |-> "idle", op |-> "none", row |-> 0, col |-> <<>>, shared |-> FALSE, df |-> <<>>,
     book |-> <<>>, res |-> "ok", exc |-> ""]

InitConc ==
    /\ InitProgram
    /\ pure \in {[pc |-> "threads", serial |-> b,
                  th |-> [t \in Threads |-> IdleThread]] : b \in BOOLEAN}

\* a call is handed to thread t
Dispatchable(t) ==
    /\ pure.th[t].pc = "idle"
    /\ pure.serial => \A u \in Threads : pure.th[u].pc = "idle"

\* the call of thread t returns
Returned(th, t, res, exc) ==
    [th EXCEPT ![t] = [IdleThread EXCEPT !.op = th[t].op, !.row = th[t].row,
                                         !.col = th[t].col,
                                         !.res = res, !.exc = exc]]

\* the entry of the sheet leaves DATAFRAMES or is assigned a new object: the
\* threads that hold the old object keep it, with the content it has
Detached(th) ==
    [u \in Threads |->
        IF th[u].shared
        THEN [th[u] EXCEPT !.shared = FALSE, !.df = DATAFRAMES[ConcKey][ConcSheet]]
        ELSE th[u]]

ConcCall(t, res) ==
    [Call(pure.th[t].op, ConcKey, IF pure.th[t].op = "create_sheet" THEN "N" ELSE ConcSheet,
          res) EXCEPT !.row = pure.th[t].row, !.col = pure.th[t].col]

\* the workbook is saved without the sheet that was written to it
book_replace_unsaved(book, sheet_name, df) == book

\* lines 110-111: the writer's workbook with the sheet replaced at its position
book_replace(book, sheet_name, df) ==
    [names |-> IF sheet_name \in Range(book.names) THEN book.names
               ELSE Append(book.names, sheet_name),
     data |-> DictSet(book.data, sheet_name, to_excel(df))]

\* lines 147-148: the writer's workbook with the new sheet after the others
book_new(book, sheet_name, df) ==
    [names |-> Append(book.names, sheet_name),
     data |-> DictSet(book.data, sheet_name, to_excel(df))]

\* lines 89-92: update_cell(ConcPath, "S1", row, column, "99") starts and
\* tests whether the table is cached
conc_update_check(t, row, column) ==
    /\ Dispatchable(t)
    /\ pure' = [pure EXCEPT !.th[t] =
                   [IdleThread EXCEPT
                       !.pc = IF Cached(ConcKey, ConcSheet) THEN "u_lookup" ELSE "u_open",
                       !.op = "update_cell", !.row = row, !.col = column]]
    /\ UNCHANGED <<disk, WORKBOOKS, DATAFRAMES, stale, last>>

\* lines 93-95
conc_update_open(t) ==
    /\ pure.th[t].pc = "u_open"
    /\ \E w \in {ensure_workbook(ConcKey)} :
          /\ WORKBOOKS' = w.wb
          /\ DATAFRAMES' = w.df
          /\ stale' = w.st
          /\ pure' = [pure EXCEPT
                         !.th = IF ConcKey \in DOMAIN WORKBOOKS THEN pure.th
                                ELSE Detached(pure.th),
                         !.th[t].pc = "u_read"]
    /\ UNCHANGED <<disk, last>>

\* line 96: both dictionaries are indexed with the path, then the sheet is
\* read through the handle and the entry is assigned
conc_update_read(t, sf) ==
    /\ pure.th[t].pc = "u_read"
    /\ IF ConcKey \notin DOMAIN WORKBOOKS \/ ConcKey \notin DOMAIN DATAFRAMES
       THEN /\ pure' = [pure EXCEPT !.th = Returned(pure.th, t, except_result, "KeyError")]
            /\ last' = ConcCall(t, except_result)
            /\ UNCHANGED <<disk, WORKBOOKS, DATAFRAMES, stale>>
       ELSE IF stale[ConcKey] /\ sf
       THEN /\ pure' = [pure EXCEPT !.th = Returned(pure.th, t, except_result, "BadZipFile")]
            /\ last' = ConcCall(t, except_result)
            /\ UNCHANGED <<disk, WORKBOOKS, DATAFRAMES, stale>>
       ELSE /\ DATAFRAMES' = [DATAFRAMES EXCEPT ![ConcKey] =
                                 DictSet(@, ConcSheet,
                                         read_sheet(disk[ConcKey].data[ConcSheet]))]
            /\ pure' = [pure EXCEPT !.th = Detached(pure.th), !.th[t].pc = "u_lookup"]
            /\ UNCHANGED <<disk, WORKBOOKS, stale, last>>

\* lines 98-107: df is looked up in DATAFRAMES and the cell is set through it
conc_update_mutate(t) ==
    /\ pure.th[t].pc = "u_lookup"
    /\ IF ~Cached(ConcKey, ConcSheet)
       THEN /\ pure' = [pure EXCEPT !.th = Returned(pure.th, t, except_result, "KeyError")]
            /\ last' = ConcCall(t, except_result)
            /\ UNCHANGED <<disk, WORKBOOKS, DATAFRAMES, stale>>
       ELSE IF ~iloc_set_ok(DATAFRAMES[ConcKey][ConcSheet], pure.th[t].row,
                            col_index(pure.th[t].col))
       THEN /\ pure' = [pure EXCEPT !.th = Returned(pure.th, t, except_result, "IndexError")]
            /\ last' = ConcCall(t, except_result)
            /\ UNCHANGED <<disk, WORKBOOKS, DATAFRAMES, stale>>
       ELSE /\ DATAFRAMES' = store_table(DATAFRAMES, ConcKey, ConcSheet,
                                iloc_set(DATAFRAMES[ConcKey][ConcSheet], pure.th[t].row,
                                         col_index(pure.th[t].col), "99"))
            /\ pure' = [pure EXCEPT !.th[t].shared = TRUE, !.th[t].pc = "u_writer"]
            /\ UNCHANGED <<disk, WORKBOOKS, stale, last>>

\* line 110: the writer loads the whole workbook from the file
conc_update_writer(t) ==
    /\ pure.th[t].pc = "u_writer"
    /\ pure' = [pure EXCEPT !.th[t].book = disk[ConcKey], !.th[t].pc = "u_save"]
    /\ UNCHANGED <<disk, WORKBOOKS, DATAFRAMES, stale, last>>

\* lines 111-113: df as it is now goes into the writer's workbook, the
\* workbook is saved over the file and the call returns
conc_update_save(t) ==
    /\ pure.th[t].pc = "u_save"
    /\ disk' = [disk EXCEPT ![ConcKey] =
                   book_replace(pure.th[t].book, ConcSheet,
                                IF pure.th[t].shared
                                THEN DATAFRAMES[ConcKey][ConcSheet]
                                ELSE pure.th[t].df)]
    /\ stale' = Rewritten(stale, WORKBOOKS, ConcKey)
    /\ pure' = [pure EXCEPT !.th = Returned(pure.th, t, "ok", "")]
    /\ last' = ConcCall(t, "ok")
    /\ UNCHANGED <<WORKBOOKS, DATAFRAMES>>

\* lines 141-147: create_sheet(ConcPath, "N", ["A"]) starts and its writer
\* loads the whole workbook from the file
conc_create_writer(t) ==
    /\ Dispatchable(t)
    /\ pure' = [pure EXCEPT !.th[t] =
                   [IdleThread EXCEPT !.pc = "c_save", !.op = "create_sheet",
                                      !.book = disk[ConcKey]]]
    /\ UNCHANGED <<disk, WORKBOOKS, DATAFRAMES, stale, last>>

\* line 148 and the writer's exit: a sheet name the loaded workbook has is
\* refused, and the workbook is saved over the file either way
conc_create_save(t) ==
    /\ pure.th[t].pc = "c_save"
    /\ stale' = Rewritten(stale, WORKBOOKS, ConcKey)
    /\ IF "N" \in Range(pure.th[t].book.names)
       THEN /\ disk' = [disk EXCEPT ![ConcKey] = pure.th[t].book]
            /\ pure' = [pure EXCEPT !.th = Returned(pure.th, t, except_result, "ValueError")]
            /\ last' = ConcCall(t, except_result)
       ELSE /\ Len(pure.th[t].book.names) < MaxSheets
            /\ disk' = [disk EXCEPT ![ConcKey] =
                           book_new(pure.th[t].book, "N", [cols |-> <<"A">>, rows |-> <<>>])]
            /\ pure' = [pure EXCEPT !.th[t].pc = "c_del"]
            /\ UNCHANGED last
    /\ UNCHANGED <<WORKBOOKS, DATAFRAMES>>

\* lines 151-156: the entries of the path are deleted and the call returns
conc_create_del(t) ==
    /\ pure.th[t].pc = "c_del"
    /\ WORKBOOKS' = del_workbook(ConcKey)
    /\ DATAFRAMES' = del_dataframes(ConcKey)
    /\ stale' = [stale EXCEPT ![ConcKey] = FALSE]
    /\ pure' = [pure EXCEPT !.th = Returned(Detached(pure.th), t, "ok", "")]
    /\ last' = ConcCall(t, "ok")
    /\ UNCHANGED disk

NextConc ==
    \E t \in Threads :
       \/ \E r \in ConcRows, c \in ConcColumns : conc_update_check(t, r, c)
       \/ conc_update_open(t)
       \/ \E sf \in SfArgs(ConcPath) : conc_update_read(t, sf)
       \/ conc_update_mutate(t)
       \/ conc_update_writer(t)
       \/ conc_update_save(t)
       \/ conc_create_writer(t)
       \/ conc_create_save(t)
       \/ conc_create_del(t)

SpecConc == InitConc /\ [][NextConc]_vars

(* ------------------------------ the claims ---------------------------- *)
AllKeys == {FKey, GKey, XKey}

\* the sheet is in the file as it is on disk
OnDisk(path, sheet_name) ==
    FileExists(path) /\ sheet_name \in Range(disk[path].names)

\* the Sheet Table an operation on an existing sheet starts from: the cached
\* one, or else the one read from the file
TableBefore(path, sheet_name) ==
    IF Cached(path, sheet_name) THEN DATAFRAMES[path][sheet_name]
    ELSE read_sheet(disk[path].data[sheet_name])

\* the letter's place in the alphabet, from 0, whatever its case
LetterRank(ch) ==
    Cardinality({x \in 65 .. 90 : x < (IF ch > 90 THEN ch - 32 ELSE ch)})

\* the place of a one- or two-letter column string in A, ..., Z, AA, ..., ZZ
ColumnPlace(column) ==
    IF Len(column) = 1 THEN LetterRank(column[1])
    ELSE Cardinality(65 .. 90) * (LetterRank(column[1]) + 1) + LetterRank(column[2])

\* the records of a table, cell by cell
IsRecordsOf(out, df) ==
    /\ DOMAIN out = DOMAIN df.rows
    /\ \A i \in DOMAIN df.rows :
          /\ DOMAIN out[i] = Range(df.cols)
          /\ \A j \in DOMAIN df.cols :
                out[i][df.cols[j]] =
                    (IF df.rows[i][j] = NaN THEN Null ELSE df.rows[i][j])

\* an update_cell call with an in-bounds 1-based row and a column letter
InBoundsUpdate(call, df) ==
    /\ call.op = "update_cell"
    /\ call.res = "ok"
    /\ call.row \in 1 .. Len(df.rows)
    /\ Len(call.col) \in {1, 2}
    /\ ColumnPlace(call.col) + 1 \in 1 .. Len(df.cols)

C1_Update ==
    (/\ last'.op = "update_cell"
     /\ OnDisk(last'.key, last'.sheet)
     /\ InBoundsUpdate(last', TableBefore(last'.key, last'.sheet)))
    => DATAFRAMES'[last'.key][last'.sheet] =
          [TableBefore(last'.key, last'.sheet) EXCEPT
              !.rows[last'.row][ColumnPlace(last'.col) + 1] = last'.vals[1]]

C1_Get ==
    (/\ last.op = "update_cell"
     /\ last.res = "ok"
     /\ InBoundsUpdate(last, DATAFRAMES[last.key][last.sheet])
     /\ last'.op = "get_sheet_data"
     /\ last'.key = last.key
     /\ last'.sheet = last.sheet)
    => /\ last'.res = "ok"
       /\ ~last'.read
       /\ IsRecordsOf(last'.out, DATAFRAMES[last.key][last.sheet])
       /\ last'.out[last.row]
              [DATAFRAMES[last.key][last.sheet].cols[ColumnPlace(last.col) + 1]]
          = last.vals[1]

\* C1: a successful update_cell(p, s, r, c, v) with r and c in bounds sets cell
\* (r, c) of the cached table to v and leaves its other cells as they were, and
\* a get_sheet_data(p, s) that follows it returns the records of that table,
\* with v at (r, c), without reading the sheet from the file.
C1_CacheCoherence == [][C1_Update /\ C1_Get]_vars

\* the end-to-end scenario: update_cell(file, "S1", 2, "b", "99"), then the records
C1_Witness ==
    /\ last.op = "get_sheet_data"
    /\ last.after = "update_cell"
    /\ last.res = "ok"
    /\ last.key = FKey
    /\ last.sheet = "S1"
    /\ last.out = << [A |-> "x", B |-> "1"], [A |-> "y", B |-> "99"] >>

\* C2: a list_sheets(p) that follows a successful create_sheet(p, n, headers)
\* succeeds and lists n, also when a handle for p was cached before the
\* create_sheet call.
C2_Invalidation ==
    [][(/\ last.op = "create_sheet"
        /\ last.res = "ok"
        /\ last'.op = "list_sheets"
        /\ last'.key = last.key)
       => (last'.res = "ok" /\ last.sheet \in Range(last'.out))]_vars

C2_Witness ==
    /\ last.op = "list_sheets"
    /\ last.after = "cached_create_sheet"
    /\ last.res = "ok"
    /\ last.out = <<"S1", "N">>

\* C3: an update_cell whose row number is greater than the row count of the
\* sheet's table returns an error and leaves the files on disk as they are.
C3_OutOfRange ==
    [][(/\ last'.op = "update_cell"
        /\ OnDisk(last'.key, last'.sheet)
        /\ last'.row > Len(TableBefore(last'.key, last'.sheet).rows))
       => (last'.res = "error" /\ disk' = disk)]_vars

C3_Witness ==
    /\ last.op = "update_cell"
    /\ last.res = "error"
    /\ Cached(last.key, last.sheet)
    /\ Len(DATAFRAMES[last.key][last.sheet].rows) > 0
    /\ last.row > Len(DATAFRAMES[last.key][last.sheet].rows)
    /\ last.col = <<65>>

\* C4: an add_row whose values list is shorter or longer than the table has
\* columns returns an error; the files on disk and the cached table keep the
\* rows they had.
C4_RowMismatch ==
    [][(/\ last'.op = "add_row"
        /\ OnDisk(last'.key, last'.sheet)
        /\ Len(last'.vals) # Len(TableBefore(last'.key, last'.sheet).cols))
       => /\ last'.res = "error"
          /\ disk' = disk
          /\ (last'.key \in DOMAIN DATAFRAMES'
              /\ last'.sheet \in DOMAIN DATAFRAMES'[last'.key])
             => DATAFRAMES'[last'.key][last'.sheet]
                    = TableBefore(last'.key, last'.sheet)]_vars

C4_Witness ==
    /\ last.op = "add_row"
    /\ last.res = "error"
    /\ Cached(last.key, last.sheet)
    /\ Len(last.vals) > 0
    /\ Len(last.vals) < Len(DATAFRAMES[last.key][last.sheet].cols)

\* C5: a create_sheet whose sheet name the file already has returns an error,
\* leaves the content of the file as it is and leaves WORKBOOKS and DATAFRAMES
\* as they were.
C5_DuplicateSheet ==
    [][(/\ last'.op = "create_sheet"
        /\ OnDisk(last'.key, last'.sheet))
       => /\ last'.res = "error"
          /\ disk' = disk
          /\ WORKBOOKS' = WORKBOOKS
          /\ DATAFRAMES' = DATAFRAMES]_vars

C5_Witness ==
    /\ last.op = "create_sheet"
    /\ last.res = "error"
    /\ last.cached
    /\ OnDisk(last.key, last.sheet)
    /\ Cached(last.key, last.sheet)

\* C6: a successful update_cell or add_row on (p, s) writes the table of s to
\* sheet s of the file p and leaves the sheet names of p, their order, the
\* content of every other sheet of p and every other file as they were.
C6_WriteBackFrame ==
    [][(last'.op \in {"update_cell", "add_row"} /\ last'.res = "ok")
       => /\ DOMAIN disk' = DOMAIN disk
          /\ \A q \in DOMAIN disk : q # last'.key => disk'[q] = disk[q]
          /\ disk'[last'.key].names = disk[last'.key].names
          /\ \A t \in Range(disk[last'.key].names) :
                t # last'.sheet
                => disk'[last'.key].data[t] = disk[last'.key].data[t]
          /\ disk'[last'.key].data[last'.sheet]
                = to_excel(DATAFRAMES'[last'.key][last'.sheet])]_vars

C6_Witness ==
    /\ last.op = "update_cell"
    /\ last.res = "ok"
    /\ last.key = FKey
    /\ last.sheet = "S1"
    /\ disk[FKey].names = <<"S1", "N">>
    /\ disk[FKey].data["N"].rows # <<>>

\* the text of a sheet as it is on disk: the rows up to the last one that
\* holds a value, an empty cell shown as NaN
IsTextOf(out, grid) ==
    /\ out.cols = grid.cols
    /\ Len(out.rows) <= Len(grid.rows)
    /\ \A i \in DOMAIN grid.rows :
          IF i \in DOMAIN out.rows
          THEN \A j \in DOMAIN grid.cols :
                  out.rows[i][j] = (IF grid.rows[i][j] = "" THEN "NaN"
                                    ELSE grid.rows[i][j])
          ELSE \A j \in DOMAIN grid.cols : grid.rows[i][j] = ""
    /\ out.rows # <<>>
       => \E j \in DOMAIN grid.cols : grid.rows[Len(out.rows)][j] # ""

\* C7: read_excel leaves the files, WORKBOOKS and DATAFRAMES as they are and
\* returns the text of the sheet (or of every sheet) as it is on disk, whatever
\* is cached.
C7_ReadExcelUncached ==
    [][(last'.op = "read_excel")
       => /\ disk' = disk
          /\ WORKBOOKS' = WORKBOOKS
          /\ DATAFRAMES' = DATAFRAMES
          /\ OnDisk(last'.key, last'.sheet)
             => /\ last'.res = "ok"
                /\ IsTextOf(last'.out, disk[last'.key].data[last'.sheet])
          /\ (FileExists(last'.key) /\ last'.sheet = "")
             => /\ last'.res = "ok"
                /\ DOMAIN last'.out = DOMAIN disk[last'.key].names
                /\ \A i \in DOMAIN last'.out :
                      /\ last'.out[i].name = disk[last'.key].names[i]
                      /\ IsTextOf(last'.out[i].text,
                                  disk[last'.key].data[disk[last'.key].names[i]])]_vars

\* read_excel of a sheet whose cached table differs from what is on disk
C7_Witness ==
    /\ last.op = "read_excel"
    /\ last.res = "ok"
    /\ last.sheet # ""
    /\ Cached(last.key, last.sheet)
    /\ DATAFRAMES[last.key][last.sheet].rows # <<>>
    /\ last.out.rows = <<>>

\* C8: an operation on path p, whether it succeeds or fails, leaves the handle
\* and the tables cached for every other path as they were.
C8_CrossPathIsolation ==
    [][\A q \in AllKeys :
          q # last'.key
          => /\ (q \in DOMAIN WORKBOOKS') = (q \in DOMAIN WORKBOOKS)
             /\ (q \in DOMAIN DATAFRAMES') = (q \in DOMAIN DATAFRAMES)
             /\ q \in DOMAIN WORKBOOKS => WORKBOOKS'[q] = WORKBOOKS[q]
             /\ q \in DOMAIN DATAFRAMES => DATAFRAMES'[q] = DATAFRAMES[q]]_vars

\* a successful create_sheet on one file, the other file's table still cached
C8_Witness ==
    /\ last.op = "create_sheet"
    /\ last.res = "ok"
    /\ last.cached
    /\ last.key = FKey
    /\ FKey \notin DOMAIN DATAFRAMES
    /\ Cached(GKey, "S1")

\* the one- and two-letter column strings in upper case
UpperColumns == UNION {[1 .. n -> 65 .. 90] : n \in {1, 2}}

UpperOf(column) ==
    [i \in DOMAIN column |-> IF column[i] > 90 THEN column[i] - 32 ELSE column[i]]

\* C9: the index computed for a column string of one or two letters, in either
\* case, is its place in A, ..., Z, AA, ..., ZZ counted from 0, and no column
\* string of other letters gets the same index.
C9_ColumnLetters ==
    (pure.pc = "done" /\ Len(pure.column) \in {1, 2})
    => /\ pure.col_idx = ColumnPlace(pure.column)
       /\ pure.col_idx \in 0 .. 701
       /\ \A other \in UpperColumns :
             other # UpperOf(pure.column) => col_index(other) # pure.col_idx

\* "zz" resolves to 701
C9_Witness ==
    /\ pure.pc = "done"
    /\ pure.column = <<122, 122>>
    /\ pure.col_idx = 701

RECURSIVE Walk(_, _, _)
\* the file system's resolution of the components rest from the directory cur:
\* [real: the entry reached, <<>> if none; linked: a symbolic link was followed]
Walk(cur, rest, linked) ==
    IF rest = <<>> THEN [real |-> cur, linked |-> linked]
    ELSE IF cur \notin Dirs THEN [real |-> <<>>, linked |-> linked]
    ELSE IF Head(rest) = ".."
    THEN Walk(IF Len(cur) > 1 THEN SubSeq(cur, 1, Len(cur) - 1) ELSE cur,
              Tail(rest), linked)
    ELSE LET next == Append(cur, Head(rest)) IN
         IF next \in DOMAIN Symlinks THEN Walk(Symlinks[next], Tail(rest), TRUE)
         ELSE IF next \in Dirs \cup RegularFiles THEN Walk(next, Tail(rest), linked)
         ELSE [real |-> <<>>, linked |-> linked]

\* what a textual path denotes for the process
Resolve(p) ==
    IF Head(p) = "/" THEN Walk(<<"/">>, Tail(p), FALSE)
    ELSE IF Head(p) = "~" THEN Walk(Home, Tail(p), FALSE)
    ELSE Walk(Cwd, p, FALSE)

SameFile(p, q) ==
    Resolve(p).real \in RegularFiles /\ Resolve(p).real = Resolve(q).real

GuardedOps == {"read_excel", "query_excel", "update_cell", "add_row", "create_sheet"}

\* the call fails for a reason its arguments and the state before it show: no
\* such file, no such sheet, a query that does not parse, a row past the end,
\* a values list of another length than the columns, a sheet name in use
KnownFailure(call) ==
    \/ ~FileExists(call.key)
    \/ /\ call.op # "create_sheet"
       /\ call.sheet # ""
       /\ call.sheet \notin Range(disk[call.key].names)
    \/ /\ call.op = "query_excel"
       /\ call.vals = <<"A ==">>
    \/ /\ call.op = "update_cell"
       /\ OnDisk(call.key, call.sheet)
       /\ call.row > Len(TableBefore(call.key, call.sheet).rows)
    \/ /\ call.op = "add_row"
       /\ OnDisk(call.key, call.sheet)
       /\ Len(call.vals) # Len(TableBefore(call.key, call.sheet).cols)
    \/ /\ call.op = "create_sheet"
       /\ OnDisk(call.key, call.sheet)

\* C11: read_excel, query_excel, update_cell, add_row and create_sheet never
\* let an exception out: each call returns its result or an "Error ..." text.
\* A call on a missing file or a missing sheet, with a bad query, a row past
\* the end, a values list of the wrong length or a sheet name in use returns
\* the error text, and a mutation that reports success has written the file
\* (so a write that fails is reported as an error text too).
C11_ErrorsAsText ==
    [][(last'.op \in GuardedOps)
       => /\ last'.res \in {"ok", "error"}
          /\ KnownFailure(last') => last'.res = "error"
          /\ (last'.op \in {"update_cell", "add_row"} /\ last'.res = "ok")
             => disk'[last'.key].data[last'.sheet]
                    = to_excel(DATAFRAMES'[last'.key][last'.sheet])
          /\ (last'.op = "create_sheet" /\ last'.res = "ok")
             => last'.sheet \in Range(disk'[last'.key].names)]_vars

\* the failed write: update_cell(file, "S1", 2, "A", "99") on the cached sheet
\* when the file cannot be opened for writing returns the error text
C11_Witness ==
    /\ last.op = "update_cell"
    /\ last.res = "error"
    /\ last.key = FKey
    /\ last.sheet = "S1"
    /\ ~last.read
    /\ last.row = 2
    /\ last.col = <<65>>
    /\ Cached(FKey, "S1")
    /\ Len(DATAFRAMES[FKey]["S1"].rows) = 2
    /\ disk[FKey].data["S1"].rows[2][1] = "y"

\* the operations that go through the cached Sheet Table
CachedOps == {"get_sheet_data", "query_excel", "update_cell", "add_row"}

\* C12: the table of (path, sheet) becomes Materialized only in a
\* get_sheet_data, query_excel, update_cell or add_row call on that sheet that
\* reads it from the file, and a Materialized table is removed only by a
\* successful create_sheet on its path; no other call removes it.
C12_EntryStateMachine ==
    [][\A k \in AllKeys, s \in SheetArgs :
          /\ (~Cached(k, s) /\ Cached(k, s)')
             => /\ last'.op \in CachedOps
                /\ last'.key = k
                /\ last'.sheet = s
                /\ last'.read
          /\ (Cached(k, s) /\ ~Cached(k, s)')
             => /\ last'.op = "create_sheet"
                /\ last'.res = "ok"
                /\ last'.key = k]_vars

\* a query_excel that materializes the new sheet, after a create_sheet dropped
\* the tables of the path
C12_Witness ==
    /\ last.op = "query_excel"
    /\ last.res = "ok"
    /\ last.read
    /\ last.sheet = "N"
    /\ Cached(last.key, "N")
    /\ ~Cached(last.key, "S1")

\* C13: after a successful create_sheet on a path, WORKBOOKS holds no handle
\* for the path and DATAFRAMES holds no table of any of its sheets, whatever
\* was materialized before the call.
C13_WholePathInvalidation ==
    (last.op = "create_sheet" /\ last.res = "ok")
    => /\ last.key \notin DOMAIN WORKBOOKS
       /\ last.key \notin DOMAIN DATAFRAMES
       /\ \A s \in SheetArgs : ~Cached(last.key, s)

\* create_sheet(file, "N", ["A"]) when the handle and the table of S1 were cached
C13_Witness ==
    /\ last.op = "create_sheet"
    /\ last.res = "ok"
    /\ last.key = FKey
    /\ last.sheet = "N"
    /\ last.cached
    /\ last.out = <<"S1">>
    /\ FKey \notin DOMAIN WORKBOOKS
    /\ ~Cached(FKey, "S1")

\* the table differs from df in at most the cell that got the value
OneCellSet(table, df, value) ==
    \E i \in DOMAIN df.rows : \E j \in DOMAIN df.cols :
       table = [df EXCEPT !.rows[i][j] = value]

\* C14: while the table of (path, sheet) is Materialized, get_sheet_data,
\* query_excel, update_cell and add_row on that sheet do not read the file:
\* they return or change the cached table, also after another process has
\* changed the sheet on disk, and a successful update_cell or add_row then
\* writes the cached table, with its change, over what the other process wrote.
C14_CachedTableIsSource ==
    [][(/\ last'.op \in CachedOps
        /\ Cached(last'.key, last'.sheet))
       => LET df == DATAFRAMES[last'.key][last'.sheet]
              table == DATAFRAMES'[last'.key][last'.sheet]
          IN /\ ~last'.read
             /\ last'.op = "get_sheet_data"
                => (last'.res = "ok" /\ IsRecordsOf(last'.out, df) /\ table = df)
             /\ last'.op = "query_excel"
                => /\ table = df
                   /\ last'.res = "ok" => last'.out = to_string(query_rows(df, last'.vals[1]))
             /\ (last'.op = "update_cell" /\ last'.res = "ok")
                => /\ OneCellSet(table, df, last'.vals[1])
                   /\ disk'[last'.key].data[last'.sheet] = to_excel(table)
             /\ (last'.op = "add_row" /\ last'.res = "ok")
                => /\ table = [df EXCEPT !.rows = Append(@, last'.vals)]
                   /\ disk'[last'.key].data[last'.sheet] = to_excel(table)]_vars

\* update_cell(file, "S1", 2, "b", "99") right after another process rewrote
\* S1: the file gets the cached rows with 99, the other process's row is gone
C14_Witness ==
    /\ last.op = "update_cell"
    /\ last.res = "ok"
    /\ last.after = "external_write"
    /\ last.key = FKey
    /\ last.sheet = "S1"
    /\ DATAFRAMES[FKey]["S1"].rows = << <<"x", "1">>, <<"y", "99">> >>
    /\ disk[FKey].data["S1"].rows = << <<"x", "1">>, <<"y", "99">> >>

\* C15: an update_cell whose zero-based row index (row - 1) is outside
\* 0 .. rows-1 or whose column index is outside 0 .. cols-1 (row 0, a
\* negative row, the empty column string with index -1 among them) returns an
\* error and changes no cell of the cached table or of the file.
C15_IndexBounds ==
    [][(/\ last'.op = "update_cell"
        /\ OnDisk(last'.key, last'.sheet)
        /\ LET df == TableBefore(last'.key, last'.sheet)
           IN \/ last'.row - 1 \notin 0 .. Len(df.rows) - 1
              \/ col_index(last'.col) \notin 0 .. Len(df.cols) - 1)
       => /\ last'.res = "error"
          /\ disk' = disk
          /\ (last'.key \in DOMAIN DATAFRAMES'
              /\ last'.sheet \in DOMAIN DATAFRAMES'[last'.key])
             => DATAFRAMES'[last'.key][last'.sheet]
                    = TableBefore(last'.key, last'.sheet)]_vars

\* a call of a cached operation on a sheet the existing file does not have
MissingSheetCall(call) ==
    /\ call.op \in CachedOps
    /\ FileExists(call.key)
    /\ call.sheet \notin Range(disk[call.key].names)

C16_Fail ==
    MissingSheetCall(last')
    => /\ last'.res \in {"error", "raise"}
       /\ last'.res = "raise" <=> last'.op = "get_sheet_data"
       /\ disk' = disk
       /\ last'.key \in DOMAIN WORKBOOKS'
       /\ last'.key \in DOMAIN DATAFRAMES'
       /\ last'.sheet \notin DOMAIN DATAFRAMES'[last'.key]
       /\ \A s \in SheetArgs :
             Cached(last'.key, s)
             => /\ s \in DOMAIN DATAFRAMES'[last'.key]
                /\ DATAFRAMES'[last'.key][s] = DATAFRAMES[last'.key][s]
       /\ last'.key \in DOMAIN WORKBOOKS => stale'[last'.key] = stale[last'.key]

C16_Later ==
    (/\ MissingSheetCall(last)
     /\ last'.op = "get_sheet_data"
     /\ last'.key = last.key
     /\ OnDisk(last'.key, last'.sheet)
     /\ (Cached(last'.key, last'.sheet) \/ ~stale[last'.key]))
    => /\ last'.res = "ok"
       /\ IsRecordsOf(last'.out, TableBefore(last'.key, last'.sheet))

C17_AddRowAppend ==
    [][(last'.op = "add_row" /\ last'.res = "ok")
       => LET df == TableBefore(last'.key, last'.sheet)
              table == DATAFRAMES'[last'.key][last'.sheet]
          IN /\ Len(table.rows) = Len(df.rows) + 1
             /\ table.rows[Len(table.rows)] = last'.vals
             /\ \A i \in DOMAIN df.rows : table.rows[i] = df.rows[i]
             /\ table.cols = df.cols
             /\ disk'[last'.key].names = disk[last'.key].names
             /\ \A s \in Range(disk[last'.key].names) :
                   disk'[last'.key].data[s] =
                       (IF s = last'.sheet THEN to_excel(table)
                        ELSE disk[last'.key].data[s])]_vars

\* add_row(file, "N", ["99"]) on the sheet N that holds one empty-text row
C17_Witness ==
    /\ last.op = "add_row"
    /\ last.res = "ok"
    /\ last.key = FKey
    /\ last.sheet = "N"
    /\ last.vals = <<"99">>
    /\ DATAFRAMES[FKey]["N"].rows = << <<"">>, <<"99">> >>
    /\ disk[FKey].data["N"].rows = << <<"">>, <<"99">> >>

\* C19: after any sequence of calls served one at a time, WORKBOOKS and
\* DATAFRAMES have the same paths as keys.
C19_ParallelMappings == DOMAIN WORKBOOKS = DOMAIN DATAFRAMES

\* both dictionaries hold the other workbook alone, after a create_sheet
\* removed the first workbook's path from both
C19_Witness ==
    /\ last.op = "create_sheet"
    /\ last.res = "ok"
    /\ last.cached
    /\ last.key = FKey
    /\ DOMAIN WORKBOOKS = {GKey}
    /\ DOMAIN DATAFRAMES = {GKey}

\* every Materialized table is what its sheet holds on disk
TablesAgreeWithDisk ==
    \A k \in DOMAIN DATAFRAMES : \A s \in DOMAIN DATAFRAMES[k] :
       DATAFRAMES[k][s] = read_sheet(disk[k].data[s])

\* C20: with calls served one at a time and no other writer of the file,
\* after every completed call every Materialized table equals the content of
\* its sheet on disk; in particular an update_cell or add_row that returns an
\* error (its write-back failed) has changed neither the cached table nor the
\* file.
C20_CacheDiskAgreement ==
    [][/\ TablesAgreeWithDisk'
       /\ (last'.op \in {"update_cell", "add_row"} /\ last'.res = "error")
          => /\ disk' = disk
             /\ \A s \in SheetArgs :
                   Cached(last'.key, s)
                   => DATAFRAMES'[last'.key][s] = DATAFRAMES[last'.key][s]]_vars

\* no call is running
AllReturned == \A t \in Threads : pure.th[t].pc = "idle"

\* the last call of thread t was an update_cell that reported success
UpdatedOk(t) == pure.th[t].op = "update_cell" /\ pure.th[t].res = "ok"

\* the cell the update_cell of thread t set, in a table
UpdatedCell(t, table) == table.rows[pure.th[t].row][ColumnPlace(pure.th[t].col) + 1]

\* C18: when calls are served one at a time, no call fails on a cache entry
\* that another call removed, every update_cell that reported success has its
\* value in the file, and between calls the file holds the cached table.
\* When the steps of two calls on one path interleave, a state outside these
\* is reached: both update_cell calls have reported success, the cached table
\* has both values, and the file lacks one of them.
C18_OneAtATime ==
    pure.serial
    => /\ \A t \in Threads : pure.th[t].exc # "KeyError"
       /\ AllReturned
          => /\ \A t \in Threads :
                   UpdatedOk(t)
                   => UpdatedCell(t, disk[ConcKey].data[ConcSheet]) = "99"
             /\ Cached(ConcKey, ConcSheet)
                => disk[ConcKey].data[ConcSheet]
                       = to_excel(DATAFRAMES[ConcKey][ConcSheet])

\* interleaved update_cell(file, "S1", 2, "A", "99") and
\* update_cell(file, "S1", 2, "b", "99"): both returned success, the cache has
\* both values, the file has lost one
C18_Witness ==
    /\ ~pure.serial
    /\ AllReturned
    /\ UpdatedOk(1) /\ pure.th[1].col = <<65>>
    /\ UpdatedOk(2) /\ pure.th[2].col = <<98>>
    /\ Cached(ConcKey, ConcSheet)
    /\ DATAFRAMES[ConcKey][ConcSheet].rows[2] = <<"99", "99">>
    /\ disk[ConcKey].data[ConcSheet].rows[2] # <<"99", "99">>

\* an update_cell whose lookup came after create_sheet deleted the entry
C18_LookupAfterDelete ==
    /\ ~pure.serial
    /\ pure.th[1].op = "update_cell"
    /\ pure.th[1].pc = "idle"
    /\ pure.th[1].exc = "KeyError"
    /\ pure.th[2].op = "create_sheet"
====
